---- MODULE Spec2Model ----
(***************************************************************************)
(* Tenant churn prediction: the feature transform (TenantFeatureEngineer), *)
(* the model abstraction (BaseChurnModel / XGBoostChurnModel) and the      *)
(* serving boundary (api/main.py), as state machines.                      *)
(*                                                                         *)
(* Numbers.  A numeric cell holds its value in halves (h = 2 * value), so  *)
(* that the median of an even number of integers is exact.                 *)
(* Categories.  A category is a small integer whose order is the           *)
(* lexicographic order of the category strings (LabelEncoder sorts its     *)
(* classes); 0 is the string "nan" that astype(str) makes of a missing     *)
(* value.                                                                  *)
(***************************************************************************)
EXTENDS Integers, Sequences, FiniteSets, TLC

VARIABLES
    encoders,       \* TenantFeatureEngineer.encoders: column label -> classes_
    scalers,        \* TenantFeatureEngineer.scalers: "standard" -> fitted scaler
    feature_names,  \* TenantFeatureEngineer.feature_names
    ef,             \* the last engineer_features call (or of its clean-up
                    \* steps alone): arguments and outcome
    fit,            \* the last engineer_features(is_training=True) call
    merged,         \* the tables given to _merge_data_sources, and its result
    derived,        \* the last call of one feature group or of
                    \* _handle_missing_values alone
    m,              \* the XGBoostChurnModel object of the training process
    disk,           \* the artifact file at MODEL_PATH
    model,          \* api/main.py global `model`
    feature_engineer, \* api/main.py global `feature_engineer`
    out,            \* the last call on a model or on the service: outcome
    workflow        \* one retention workflow: its config and its execution

fevars == <<encoders, scalers, feature_names, ef, fit, merged, derived>>
mvars == <<m, disk, model, feature_engineer, out>>
vars == <<encoders, scalers, feature_names, ef, fit, merged, derived,
          m, disk, model, feature_engineer, out, workflow>>

(***************************************************************************)
(* Bounds of the model.                                                    *)
(***************************************************************************)
MaxBatch == 3       \* rows in one batch of leases
MaxRows == 2        \* rows in one frame handed to a trained model
MaxLeases == 2      \* rows of the leases table handed to _merge_data_sources
MaxLoads == 2       \* model objects the service process creates by loading

(***************************************************************************)
(* Cells, columns and tables (pandas Series / DataFrame).                  *)
(***************************************************************************)
NoStats == [sum |-> 0, sq |-> 0, n |-> 0]
Num(h) == [k |-> "num", h |-> h, st |-> NoStats]
NaN == [k |-> "nan", h |-> 0, st |-> NoStats]
Cat(c) == [k |-> "cat", h |-> c, st |-> NoStats]
\* (x - mean_) / scale_ of StandardScaler, kept as x with the fitted statistics
Std(h, st) == [k |-> "std", h |-> h, st |-> st]

IsNa(c) == c.k = "nan"

Col(name, dtype, vals) == [name |-> name, dtype |-> dtype, vals |-> vals]

Columns(features) == [i \in 1..Len(features) |-> features[i].name]

\* the positions a label selects: features[col] is a Series when there is one,
\* a DataFrame when the label is repeated
Positions(features, col) == {i \in 1..Len(features) : features[i].name = col}

NotNa(vals) == {i \in 1..Len(vals) : ~IsNa(vals[i])}

KthSmallest(vals, S, kth) ==
    CHOOSE v \in {vals[i].h : i \in S} :
        /\ Cardinality({i \in S : vals[i].h < v}) < kth
        /\ kth <= Cardinality({i \in S : vals[i].h <= v})

\* Series.median(): NaN are skipped; the median of no value is NaN
Median(vals) ==
    LET S == NotNa(vals)
        n == Cardinality(S)
    IN  IF n = 0 THEN NaN
        ELSE IF n % 2 = 1 THEN Num(KthSmallest(vals, S, (n + 1) \div 2))
        ELSE Num((KthSmallest(vals, S, n \div 2)
                  + KthSmallest(vals, S, n \div 2 + 1)) \div 2)

\* Series.mode(): the most frequent values, sorted; NaN are skipped
Mode(vals) ==
    LET S == NotNa(vals)
        cnt(c) == Cardinality({i \in S : vals[i].h = c})
    IN  {vals[i].h : i \in {j \in S : \A l \in S : cnt(vals[l].h) <= cnt(vals[j].h)}}

Min(S) == CHOOSE x \in S : \A y \in S : x <= y

(***************************************************************************)
(* Inputs.  A lease row carries what the joins of _merge_data_sources put  *)
(* beside it: the age in days of its last payment (missing when the lease  *)
(* has no payment row) and the neighbourhood type of its property.  Three  *)
(* leases are drawn from: one without payments in a "rural" property (1),  *)
(* and two with payments, in a "suburban" (2) and an "urban" (3) property. *)
(* Batches are enumerated up to row order: every statistic below is taken  *)
(* over a column as a multiset and every map is row by row.                *)
(***************************************************************************)
Lease(age, nt) == [last_payment_age |-> age, neighborhood_type |-> nt]
LeaseRows == { Lease(NaN, Cat(1)), Lease(Num(2), Cat(2)), Lease(Num(6), Cat(3)) }

Batches ==
    {b \in UNION {[1..n -> LeaseRows] : n \in 1..MaxBatch} :
        \A i \in 1..(Len(b) - 1) :
            b[i].last_payment_age.h <= b[i + 1].last_payment_age.h}

\* market_data: None, or a table with the one zip code of the batch
NoMarket == [given |-> FALSE, market_rent_median |-> NaN]
Markets == {NoMarket, [given |-> TRUE, market_rent_median |-> Num(4200)]}

(***************************************************************************)
(* TenantFeatureEngineer                                                   *)
(***************************************************************************)
MergeDataSources(leases, market_data) ==
    [i \in 1..Len(leases) |->
        [last_payment_age   |-> leases[i].last_payment_age,
         neighborhood_type  |-> leases[i].neighborhood_type,
         tenure_months      |-> Num(24),
         market_rent_median |-> market_data.market_rent_median]]

(***************************************************************************)
(* _merge_data_sources on its keys.  Keys are strings ("nan" is a missing  *)
(* key); the other cells are numbers.  Each table carries its key and the  *)
(* columns the joins below need.                                           *)
(***************************************************************************)
LeaseIds == <<"l1", "l2", "l3">>
PropertyIds == <<"p1", "p2">>

LeaseRow(i, tenant_id, property_id) ==
    [lease_id |-> LeaseIds[i], tenant_id |-> tenant_id,
     property_id |-> property_id, monthly_rent |-> Num(20)]
LeaseTables ==
    UNION {{[i \in 1..n |-> LeaseRow(i, t[i], p[i])] :
                t \in [1..n -> {"t1", "t2"}], p \in [1..n -> {"p1", "p2"}]} :
           n \in 1..MaxLeases}

TenantRow(tenant_id, credit_score) ==
    [tenant_id |-> tenant_id, credit_score |-> Num(credit_score)]
\* a tenant of a table that has the column annual_income
TenantIncomeRow(tenant_id, annual_income) ==
    [tenant_id |-> tenant_id, credit_score |-> Num(700),
     annual_income |-> Num(annual_income)]
\* tables without the column annual_income, then with it: an income of four
\* times the yearly rent, one below the yearly rent, and an income of 0
TenantTables ==
    { <<>>,
      <<TenantRow("t1", 700)>>,
      <<TenantRow("t1", 700), TenantRow("t2", 640)>>,
      <<TenantRow("t1", 700), TenantRow("t1", 640)>>,
      <<TenantIncomeRow("t1", 960)>>,
      <<TenantIncomeRow("t1", 200), TenantIncomeRow("t2", 0)>> }

PropertyRow(property_id, zip_code) ==
    [property_id |-> property_id, zip_code |-> zip_code]
PropertyTables ==
    { <<>>,
      <<PropertyRow("p1", "z1")>>,
      <<PropertyRow("p1", "z1"), PropertyRow("p2", "z2")>>,
      <<PropertyRow("p1", "z1"), PropertyRow("p1", "z2")>> }

PaymentRow(lease_id, amount, days_late) ==
    [lease_id |-> lease_id, amount |-> amount, days_late |-> days_late]
PaymentTables ==
    { <<>>,
      <<PaymentRow("l1", 100, 0)>>,
      <<PaymentRow("l1", 100, 3), PaymentRow("l1", 60, 0)>>,
      <<PaymentRow("l1", 100, 4), PaymentRow("l2", 100, 5),
        PaymentRow("l2", 100, 2)>> }

MaintenanceRow(property_id, priority) ==
    [property_id |-> property_id, priority |-> priority]
MaintenanceTables ==
    { <<>>,
      <<MaintenanceRow("p1", "HIGH")>>,
      <<MaintenanceRow("p1", "HIGH"), MaintenanceRow("p1", "LOW")>> }

MarketRow(zip_code, market_rent_median) ==
    [zip_code |-> zip_code, market_rent_median |-> Num(market_rent_median)]
MarketTables ==
    { [given |-> FALSE, rows |-> <<>>],
      [given |-> TRUE, rows |-> <<MarketRow("z1", 4200)>>],
      [given |-> TRUE, rows |-> <<MarketRow("z1", 4200), MarketRow("z1", 4300)>>] }

\* left.merge(right, on=on, how="left"): every left row in order, once per
\* matching right row, or once with missing right columns when none matches
RECURSIVE LeftMerge(_, _, _, _)
LeftMerge(left, right, on, missing) ==
    IF left = <<>> THEN <<>>
    ELSE LET row == Head(left)
             matches == SelectSeq(right, LAMBDA r : r[on] = row[on])
             joined == IF matches = <<>> THEN <<row @@ missing>>
                       ELSE [k \in 1..Len(matches) |-> row @@ matches[k]]
         IN  joined \o LeftMerge(Tail(left), right, on, missing)

RECURSIVE SumAmount(_)
SumAmount(rows) ==
    IF rows = <<>> THEN 0 ELSE Head(rows).amount + SumAmount(Tail(rows))

RECURSIVE SumDaysLate(_)
SumDaysLate(rows) ==
    IF rows = <<>> THEN 0 ELSE Head(rows).days_late + SumDaysLate(Tail(rows))

RECURSIVE SumSquares(_)
SumSquares(rows) ==
    IF rows = <<>> THEN 0
    ELSE Head(rows).amount * Head(rows).amount + SumSquares(Tail(rows))

\* "std" of a group: the sample standard deviation, missing for fewer than
\* two payments; the cell holds n (n - 1) times its square
AmountStd(rows) ==
    IF Len(rows) < 2 THEN NaN
    ELSE Num(Len(rows) * SumSquares(rows) - SumAmount(rows) * SumAmount(rows))

\* payments.groupby("lease_id").agg(...).reset_index(): one row per lease_id
PaymentAgg(payments) ==
    LET ids == SelectSeq(LeaseIds,
                   LAMBDA id : \E k \in 1..Len(payments) : payments[k].lease_id = id)
        of(id) == SelectSeq(payments, LAMBDA r : r.lease_id = id)
    IN  [g \in 1..Len(ids) |->
            [lease_id |-> ids[g],
             total_paid |-> Num(SumAmount(of(ids[g]))),
             payment_std |-> AmountStd(of(ids[g])),
             payment_count |-> Num(Len(of(ids[g]))),
             total_days_late |-> Num(SumDaysLate(of(ids[g])))]]

\* maintenance.groupby("property_id").agg(...).reset_index()
MaintAgg(maintenance) ==
    LET ids == SelectSeq(PropertyIds,
                   LAMBDA id : \E k \in 1..Len(maintenance) :
                                   maintenance[k].property_id = id)
        of(id) == SelectSeq(maintenance, LAMBDA r : r.property_id = id)
    IN  [g \in 1..Len(ids) |->
            [property_id |-> ids[g],
             maintenance_count |-> Num(Len(of(ids[g]))),
             high_priority_count |->
                 Num(Len(SelectSeq(of(ids[g]), LAMBDA r : r.priority = "HIGH")))]]

\* the columns tenants brings beside its key
TenantColumns(tenants) ==
    IF tenants # <<>> /\ "annual_income" \in DOMAIN tenants[1]
    THEN {"credit_score", "annual_income"}
    ELSE {"credit_score"}

\* _merge_data_sources: five left joins on the base table of leases
MergeOnKeys(tenants, leases, payments, properties, maintenance, market_data) ==
    LET d1 == LeftMerge(leases, tenants, "tenant_id",
                        [c \in TenantColumns(tenants) |-> NaN])
        d2 == LeftMerge(d1, properties, "property_id", [zip_code |-> "nan"])
        d3 == LeftMerge(d2, PaymentAgg(payments), "lease_id",
                        [total_paid |-> NaN, payment_std |-> NaN,
                         payment_count |-> NaN, total_days_late |-> NaN])
        d4 == LeftMerge(d3, MaintAgg(maintenance), "property_id",
                        [maintenance_count |-> NaN, high_priority_count |-> NaN])
    IN  IF market_data.given
        THEN LeftMerge(d4, market_data.rows, "zip_code",
                       [market_rent_median |-> NaN])
        ELSE d4

Sources(tenants, leases, payments, properties, maintenance, market_data) ==
    [tenants |-> tenants, leases |-> leases, payments |-> payments,
     properties |-> properties, maintenance |-> maintenance,
     market_data |-> market_data, called |-> FALSE, df |-> <<>>]
NoMerge == Sources(<<>>, <<>>, <<>>, <<>>, <<>>, [given |-> FALSE, rows |-> <<>>])

DoMergeDataSources ==
    /\ merged' = [merged EXCEPT
                    !.called = TRUE,
                    !.df = MergeOnKeys(merged.tenants, merged.leases,
                                       merged.payments, merged.properties,
                                       merged.maintenance, merged.market_data)]
    /\ UNCHANGED <<encoders, scalers, feature_names, ef, fit, derived>>
    /\ UNCHANGED <<mvars, workflow>>

(***************************************************************************)
(* Feature groups on the joined table.  A derived value is a float: a      *)
(* fraction, nan or inf.                                                   *)
(***************************************************************************)
Float(num, den) == [k |-> "num", num |-> num, den |-> den]
FloatNaN == [k |-> "nan", num |-> 0, den |-> 1]
FloatInf == [k |-> "inf", num |-> 1, den |-> 0]

\* Series / Series: nan where an operand is missing or for 0 / 0, inf for x / 0
TrueDiv(a, b) ==
    IF IsNa(a) \/ IsNa(b) THEN FloatNaN
    ELSE IF b.h = 0 THEN (IF a.h = 0 THEN FloatNaN ELSE FloatInf)
    ELSE Float(a.h, b.h)

\* Series.fillna(0) on derived values
FillZero(x) == IF x.k = "nan" THEN Float(0, 1) ELSE x

\* the quotient of the late-payment rate, left as it is where it is missing
LatePaymentRateNoFill(row) == TrueDiv(row.total_days_late, row.payment_count)

\* (df["total_days_late"] / df["payment_count"]).fillna(0)
LatePaymentRate(row) ==
    FillZero(TrueDiv(row.total_days_late, row.payment_count))

\* 1 / (1 + df["payment_std"].fillna(0)): `of` is n (n - 1) times the square
\* of the filled deviation, so the value is 1.0 exactly when it is 0
PaymentConsistency(row) ==
    [k |-> "num", of |-> IF IsNa(row.payment_std) THEN 0 ELSE row.payment_std.h]

\* _tenant_behavior_features, its payment behaviour columns
PaymentBehaviorFeatures(df) ==
    [i \in 1..Len(df) |->
        [late_payment_rate |-> LatePaymentRate(df[i]),
         payment_consistency |-> PaymentConsistency(df[i])]]

\* Series.clip(upper=1.0): nan stays nan
ClipUpperOne(x) ==
    IF x.k = "inf" \/ (x.k = "num" /\ x.den > 0 /\ x.num > x.den) THEN Float(1, 1)
    ELSE x

\* _financial_features, its rent-to-income column: the quotient where the
\* joined table has a column annual_income, the constant 0.30 where it has not
RentToIncomeRatio(df) ==
    [i \in 1..Len(df) |->
        IF "annual_income" \in DOMAIN df[i]
        THEN ClipUpperOne(TrueDiv(Num(df[i].monthly_rent.h * 12),
                                  df[i].annual_income))
        ELSE Float(3, 10)]

NoGroup == [op |-> "", features |-> <<>>]

DoPaymentBehaviorFeatures ==
    /\ merged.called
    /\ derived' = [op |-> "_tenant_behavior_features",
                   features |-> PaymentBehaviorFeatures(merged.df)]
    /\ UNCHANGED <<encoders, scalers, feature_names, ef, fit, merged>>
    /\ UNCHANGED <<mvars, workflow>>

DoRentToIncomeRatio ==
    /\ merged.called
    /\ derived' = [op |-> "_financial_features",
                   features |-> RentToIncomeRatio(merged.df)]
    /\ UNCHANGED <<encoders, scalers, feature_names, ef, fit, merged>>
    /\ UNCHANGED <<mvars, workflow>>

\* df[name]: the column of the joined table
Field(df, name) == [i \in 1..Len(df) |-> df[i][name]]
Scalar(df, c) == [i \in 1..Len(df) |-> c]

\* the behaviour group without its "Renewal history" tenure_months column
TenantBehaviorFeaturesNoTenure(df) ==
    << Col("days_since_last_payment", "number", Field(df, "last_payment_age")) >>

TenantBehaviorFeatures(df) ==
    << Col("days_since_last_payment", "number", Field(df, "last_payment_age")),
       Col("tenure_months", "number", Field(df, "tenure_months")) >>

PropertyFeatures(df) ==
    << Col("neighborhood_type", "object", Field(df, "neighborhood_type")) >>

\* the joined table has no monthly_rent and no primary_payment_method column:
\* df.get broadcasts the defaults 2000 and "ach"
FinancialFeatures(df) ==
    << Col("monthly_rent", "number", Scalar(df, Num(4000))),
       Col("payment_method", "object", Scalar(df, Cat(1))) >>

MarketFeatures(df) ==
    << Col("market_rent_median", "number", Field(df, "market_rent_median")) >>

\* the temporal group without its "Tenure" tenure_months column
TemporalFeaturesNoTenure(df) ==
    << Col("lease_term_months", "number", Scalar(df, Num(24))) >>

TemporalFeatures(df) ==
    << Col("lease_term_months", "number", Scalar(df, Num(24))),
       Col("tenure_months", "number", Field(df, "tenure_months")) >>

Ok(features) == [raised |-> "", features |-> features]
Raise(e) == [raised |-> e, features |-> <<>>]

\* `if features[col].isna().any():` -- with a repeated label features[col] is a
\* DataFrame, .isna().any() a Series, and its truth value raises ValueError
AmbiguousTruth(features, col) == Cardinality(Positions(features, col)) > 1

FillNa(column, fill) ==
    Col(column.name, column.dtype,
        [i \in 1..Len(column.vals) |->
            IF IsNa(column.vals[i]) THEN fill ELSE column.vals[i]])

HandleMissingValues(features) ==
    LET I == 1..Len(features)
        numerical_cols == {i \in I : features[i].dtype = "number"}
        categorical_cols == {i \in I : features[i].dtype = "object"}
        hasna(i) == \E j \in 1..Len(features[i].vals) : IsNa(features[i].vals[j])
        \* mode()[0] of a column with no value at all
        nomode(i) == hasna(i) /\ Mode(features[i].vals) = {}
    IN  IF \E i \in numerical_cols \cup categorical_cols :
               AmbiguousTruth(features, features[i].name)
        THEN Raise("ValueError")
        ELSE IF \E i \in categorical_cols : nomode(i)
        THEN Raise("KeyError")
        ELSE Ok([i \in I |->
                IF i \in numerical_cols /\ hasna(i)
                THEN FillNa(features[i], Median(features[i].vals))
                ELSE IF i \in categorical_cols /\ hasna(i)
                THEN FillNa(features[i], Cat(Min(Mode(features[i].vals))))
                ELSE features[i]])

\* LabelEncoder.fit: classes_ is the sorted list of the distinct values
Classes(vals) ==
    LET S == {vals[i].h : i \in 1..Len(vals)}
        rank(c) == Cardinality({d \in S : d < c}) + 1
    IN  [r \in 1..Cardinality(S) |-> CHOOSE c \in S : rank(c) = r]

\* LabelEncoder.transform: the position of the value in classes_, from 0
Code(classes, c) == (CHOOSE r \in 1..Len(classes) : classes[r] = c) - 1

Seen(classes, c) == \E r \in 1..Len(classes) : classes[r] = c

\* astype(str): a missing value becomes the string "nan"
AsStr(vals) == [i \in 1..Len(vals) |-> IF IsNa(vals[i]) THEN Cat(0) ELSE vals[i]]

\* Reached only after _handle_missing_values has returned, which raises on any
\* repeated label: features[col] is a Series here.  Returns the encoded table and
\* the encoders dictionary after the call.
EncodeCategoricals(encs, features, is_training) ==
    LET I == 1..Len(features)
        categorical_cols == {i \in I : features[i].dtype = "object"}
        classes(i) == IF is_training THEN Classes(AsStr(features[i].vals))
                      ELSE encs[features[i].name]
        known(i) == is_training \/ features[i].name \in DOMAIN encs
        code(i, c) == IF known(i) /\ Seen(classes(i), c.h)
                      THEN Num(2 * Code(classes(i), c.h))
                      ELSE Num(-2)
        fitted == {features[i].name : i \in categorical_cols}
    IN  [features |->
            [i \in I |->
                IF i \in categorical_cols
                THEN Col(features[i].name, "number",
                         [j \in 1..Len(features[i].vals) |->
                             code(i, AsStr(features[i].vals)[j])])
                ELSE features[i]],
         encoders |->
            IF is_training
            THEN [c \in DOMAIN encs \cup fitted |->
                     IF c \in fitted
                     THEN classes(CHOOSE i \in categorical_cols : features[i].name = c)
                     ELSE encs[c]]
            ELSE encs]

\* Series.nunique(): the number of distinct values, NaN not counted
NUnique(vals) == Cardinality({vals[i] : i \in NotNa(vals)})

RECURSIVE SumOver(_, _, _)
SumOver(vals, T, square) ==
    IF T = {} THEN 0
    ELSE LET i == CHOOSE j \in T : TRUE
         IN  (IF square THEN vals[i].h * vals[i].h ELSE vals[i].h)
             + SumOver(vals, T \ {i}, square)

\* StandardScaler.fit on one column: mean_ and scale_ are functions of these sums
Stats(vals) ==
    [sum |-> SumOver(vals, NotNa(vals), FALSE),
     sq  |-> SumOver(vals, NotNa(vals), TRUE),
     n   |-> Cardinality(NotNa(vals))]

Scale(column, st) ==
    Col(column.name, column.dtype,
        [i \in 1..Len(column.vals) |->
            IF IsNa(column.vals[i]) THEN NaN ELSE Std(column.vals[i].h, st)])

\* StandardScaler rejects an empty frame, and a frame whose columns are not those
\* seen in fit (scikit-learn before 1.2 compares their number alone; the column
\* lists that differ here differ in length).
\* Returns the outcome and the scalers dictionary after the call.
ScaleFeatures(scs, features, is_training) ==
    LET I == 1..Len(features)
        scale_idx == {i \in I : NUnique(features[i].vals) > 2
                                /\ features[i].dtype = "number"}
        rank(i) == Cardinality({j \in scale_idx : j <= i})
        scale_cols == [r \in 1..Cardinality(scale_idx) |->
                          features[CHOOSE i \in scale_idx : rank(i) = r].name]
        fitted == [cols  |-> scale_cols,
                   stats |-> [r \in 1..Len(scale_cols) |->
                       Stats(features[CHOOSE i \in scale_idx : rank(i) = r].vals)]]
        scaler == IF is_training THEN fitted ELSE scs["standard"]
        scaled == [i \in I |->
                    IF i \in scale_idx
                    THEN Scale(features[i], scaler.stats[rank(i)])
                    ELSE features[i]]
    IN  IF is_training
        THEN IF scale_cols = <<>>
             THEN [out |-> Raise("ValueError"), scalers |-> scs]
             ELSE [out |-> Ok(scaled), scalers |-> [s \in {"standard"} |-> fitted]]
        ELSE IF "standard" \in DOMAIN scs
        THEN IF scale_cols = <<>> \/ scale_cols # scaler.cols
             THEN [out |-> Raise("ValueError"), scalers |-> scs]
             ELSE [out |-> Ok(scaled), scalers |-> scs]
        ELSE [out |-> Ok(features), scalers |-> scs]

\* the groups of engineer_features, side by side (pd.concat, axis=1)
FeatureGroups(leases, market_data) ==
    LET df == MergeDataSources(leases, market_data)
    IN  TenantBehaviorFeatures(df) \o PropertyFeatures(df)
        \o FinancialFeatures(df)
        \o (IF market_data.given THEN MarketFeatures(df) ELSE <<>>)
        \o TemporalFeatures(df)

\* a feature table whose labels are distinct: the first column of each label
DistinctLabels(features) ==
    LET first == {i \in 1..Len(features) :
                     i = Min(Positions(features, features[i].name))}
        rank(i) == Cardinality({j \in first : j <= i})
    IN  [r \in 1..Cardinality(first) |->
            features[CHOOSE i \in first : rank(i) = r]]

\* engineer_features from "Handle missing values" on: the three clean-up steps
\* on the table of the groups; the state of the object and the outcome
CleanUp(encs, scs, names, groups, is_training) ==
    LET filled == HandleMissingValues(groups)
        encoded == EncodeCategoricals(encs, filled.features, is_training)
        scaled == ScaleFeatures(scs, encoded.features, is_training)
    IN  IF filled.raised # ""
        THEN [out |-> filled, encoders |-> encs, scalers |-> scs,
              feature_names |-> names]
        ELSE IF scaled.out.raised # ""
        THEN [out |-> scaled.out, encoders |-> encoded.encoders,
              scalers |-> scs, feature_names |-> names]
        ELSE [out |-> scaled.out, encoders |-> encoded.encoders,
              scalers |-> scaled.scalers,
              feature_names |-> Columns(scaled.out.features)]

\* the state of the object and the outcome after engineer_features
EngineerFeaturesRun(encs, scs, names, leases, market_data, is_training) ==
    CleanUp(encs, scs, names, FeatureGroups(leases, market_data), is_training)

NoCall == [called |-> FALSE, is_training |-> FALSE, leases |-> <<>>,
           market_data |-> NoMarket, raised |-> "", features |-> <<>>]

EngineerFeatures(leases, market_data, is_training) ==
    \E r \in {EngineerFeaturesRun(encoders, scalers, feature_names,
                                 leases, market_data, is_training)} :
      \E call \in {[called |-> TRUE, is_training |-> is_training,
                    leases |-> leases, market_data |-> market_data,
                    raised |-> r.out.raised, features |-> r.out.features]} :
        /\ encoders' = r.encoders
        /\ scalers' = r.scalers
        /\ feature_names' = r.feature_names
        /\ ef' = call
        /\ fit' = IF is_training THEN call ELSE fit
        /\ UNCHANGED <<merged, derived>>
        /\ UNCHANGED <<mvars, workflow>>

\* _handle_missing_values on a feature table with distinct labels
DoHandleMissingValues(leases) ==
    \E r \in {HandleMissingValues(DistinctLabels(FeatureGroups(leases, NoMarket)))} :
        /\ derived' = [op |-> "_handle_missing_values", leases |-> leases,
                       raised |-> r.raised, features |-> r.features]
        /\ UNCHANGED <<encoders, scalers, feature_names, ef, fit, merged>>
        /\ UNCHANGED <<mvars, workflow>>

\* the clean-up steps, chained as engineer_features chains them, on a feature
\* table with distinct labels
DoCleanUp(leases, is_training) ==
    \E r \in {CleanUp(encoders, scalers, feature_names,
                      DistinctLabels(FeatureGroups(leases, NoMarket)),
                      is_training)} :
      \E call \in {[called |-> TRUE, is_training |-> is_training,
                    leases |-> leases, market_data |-> NoMarket,
                    raised |-> r.out.raised, features |-> r.out.features]} :
        /\ encoders' = r.encoders
        /\ scalers' = r.scalers
        /\ feature_names' = r.feature_names
        /\ ef' = call
        /\ fit' = IF is_training THEN call ELSE fit
        /\ UNCHANGED <<merged, derived>>
        /\ UNCHANGED <<mvars, workflow>>

InitFeatures ==
    /\ encoders = <<>>
    /\ scalers = <<>>
    /\ feature_names = <<>>
    /\ ef = NoCall
    /\ fit = NoCall
    /\ merged = NoMerge
    /\ derived = NoGroup


(***************************************************************************)
(* Properties of the feature transform (checked under SpecFeatures).       *)
(***************************************************************************)
\* an apply call made after a fit call
ApplyAfterFit == ef.called /\ ~ef.is_training /\ fit.called

\* the column of a returned table under a label
ColOf(features, name) == features[CHOOSE i \in 1..Len(features) : features[i].name = name]

\* the rows of the fit batch that are the lease `row`
FitRowsOf(row) == {i \in 1..Len(fit.leases) : fit.leases[i] = row}

\* C1: for a batch fitted with engineer_features(is_training=True) and a row r
\* of it, engineer_features(is_training=False) on r alone, with the same market
\* data, returns the ordered feature names and the values of row r of the
\* fit-time output.
C1_SingleRowParity ==
    (ApplyAfterFit /\ Len(ef.leases) = 1 /\ FitRowsOf(ef.leases[1]) # {}
       /\ ef.market_data = fit.market_data)
    => /\ fit.raised = ""
       /\ ef.raised = ""
       /\ Columns(ef.features) = Columns(fit.features)
       /\ \A i \in FitRowsOf(ef.leases[1]), c \in 1..Len(fit.features) :
              ef.features[c].vals[1] = fit.features[c].vals[i]

\* C2: in an apply call every missing numeric value (the payment age of a lease
\* without payments) is filled with the median that column had in the fit batch,
\* and every missing categorical value with its fit-batch mode, whatever the
\* apply batch holds.
C2_FrozenImputation ==
    (ApplyAfterFit /\ \E j \in 1..Len(ef.leases) : IsNa(ef.leases[j].last_payment_age))
    => /\ ef.raised = ""
       /\ \A j \in 1..Len(ef.leases) :
              IsNa(ef.leases[j].last_payment_age)
              => ColOf(ef.features, "days_since_last_payment").vals[j].h
                 = Median([i \in 1..Len(fit.leases) |-> fit.leases[i].last_payment_age]).h

C6_EncodingStable ==
    ApplyAfterFit
    => /\ fit.raised = ""
       /\ ef.raised = ""
       /\ \A i \in 1..Len(fit.leases) :
              ColOf(fit.features, "neighborhood_type").vals[i] # Num(-2)
       /\ \A j \in 1..Len(ef.leases) :
              LET code == ColOf(ef.features, "neighborhood_type").vals[j]
                  seen == {i \in 1..Len(fit.leases) :
                             fit.leases[i].neighborhood_type
                             = ef.leases[j].neighborhood_type}
              IN  IF seen = {} THEN code.h = -2
                  ELSE \A i \in seen :
                         code.h = ColOf(fit.features, "neighborhood_type").vals[i].h

\* C7: engineer_features(is_training=False) on an engineer that was never
\* fitted fails with a not-fitted error.
C7_ApplyUnfittedFails ==
    (ef.called /\ ~ef.is_training /\ ~fit.called) => ef.raised = "NotFittedError"

(***************************************************************************)
(* BaseChurnModel / XGBoostChurnModel                                      *)
(*                                                                         *)
(* A frame X is its ordered column list; its one row holds, under each     *)
(* column, the value below.  A probability is an integer number of         *)
(* thousandths.                                                            *)
(***************************************************************************)
ColLists == { <<"avg_days_late", "monthly_rent">>,
              <<"monthly_rent", "avg_days_late">>,
              <<"avg_days_late", "property_age">>,
              <<"avg_days_late">> }

\* the fields of TenantData, in declaration order, that the model's frames use
RequestCols == <<"avg_days_late", "tenure_months", "monthly_rent">>

ValueOf(name) ==
    CASE name = "avg_days_late" -> 1
      [] name = "tenure_months" -> 2
      [] name = "monthly_rent" -> 3
      [] OTHER -> 4

Row(cols) == [i \in 1..Len(cols) |-> ValueOf(cols[i])]

\* dict.update
Update(d, e) ==
    [key \in DOMAIN d \cup DOMAIN e |-> IF key \in DOMAIN e THEN e[key] ELSE d[key]]

DEFAULT_PARAMS == [max_depth |-> 6, scale_pos_weight |-> 1]

\* the model_config arguments of the callers
Configs == { <<>>, [version |-> "2.0.0"] }

\* the frames the training process fits on
TrainCols == { <<"avg_days_late", "monthly_rent">>,
               <<"avg_days_late", "property_age">> }

\* the max_depth values of the default param_grid
Grid == {4, 6, 8}

None == [none |-> TRUE, list |-> <<>>]

List(l) == [none |-> FALSE, list |-> l]

\* xgb.XGBClassifier(**params), not fitted
Estimator(params) ==
    [none |-> FALSE, params |-> params, fitted |-> FALSE, cols |-> <<>>]

\* XGBClassifier.fit(X, y): the booster records the frame's column names
Fit(est, cols) ==
    [none |-> FALSE, params |-> est.params, fitted |-> TRUE, cols |-> cols]

\* BaseChurnModel.__init__ under XGBoostChurnModel.__init__
NewModel(model_config) ==
    LET config == Update(DEFAULT_PARAMS, model_config)
    IN  [model_config      |-> config,
         model             |-> Estimator(config),
         feature_names     |-> None,
         training_metadata |-> <<>>,
         model_version     |-> IF "version" \in DOMAIN config
                               THEN config["version"] ELSE "1.0.0"]

\* XGBClassifier.predict_proba on a fitted estimator: the positive-class
\* probability of the row, a function of the values by position
Proba(est, row) ==
    LET RECURSIVE w(_)
        w(i) == IF i = 0 THEN 0 ELSE 97 * i * row[i] + w(i - 1)
    IN  (11 * est.params["max_depth"] + 37 * Len(est.cols) + w(Len(row))) % 1001

Returned(v) == [raised |-> "", value |-> v]
Raised(e) == [raised |-> e, value |-> <<>>]

\* the positive-class probabilities a booster can give a row, in thousandths:
\* the ends of [0,1] and the values at and beside the thresholds of the code
Probabilities == {0, 1, 499, 500, 501, 799, 800, 999, 1000}

\* top_n of get_prediction_explanation: one feature, or the default of five
TopNs == {1, 5}

\* the booster's positive-class probabilities for the rows of a frame of up to
\* MaxRows rows; what is computed from them below is computed row by row, so
\* the frames are enumerated up to row order
ClassProbs ==
    {cp \in UNION {[1..n -> Probabilities] : n \in 0..MaxRows} :
        \A i \in 1..(Len(cp) - 1) : cp[i] <= cp[i + 1]}

\* the frames handed to evaluate: rows below, at and above the threshold
EvalProbs ==
    {cp \in ClassProbs :
        Len(cp) >= 1 /\ \A i \in 1..Len(cp) : cp[i] \in {1, 500, 999}}

\* a predict_proba matrix with the positive column alone
ProbaMatrixPositive(class_probs) ==
    [i \in 1..Len(class_probs) |-> <<class_probs[i]>>]

\* XGBClassifier.predict_proba: np.vstack((1 - class_probs, class_probs)).T
ProbaMatrix(class_probs) ==
    [i \in 1..Len(class_probs) |-> <<1000 - class_probs[i], class_probs[i]>>]

\* proba[:, 1]
Positive(proba) == [i \in 1..Len(proba) |-> proba[i][Len(proba[i])]]

\* XGBClassifier.predict: column_indexes[class_probs > 0.5] = 1
Labels(class_probs) ==
    [i \in 1..Len(class_probs) |-> IF class_probs[i] > 500 THEN 1 ELSE 0]

\* XGBClassifier.predict / predict_proba: `xgb_names`: the installed xgboost
\* compares the frame's column names with the booster's; releases that predict
\* in place compare the number of columns alone
EstimatorProba(est, cols, xgb_names) ==
    IF ~est.fitted THEN Raised("NotFittedError")
    ELSE IF Len(cols) # Len(est.cols) \/ (xgb_names /\ cols # est.cols)
    THEN Raised("ValueError")
    ELSE Returned(ProbaMatrix(<<Proba(est, Row(cols))>>))

\* XGBoostChurnModel.predict_proba
PredictProba(self, cols, xgb_names) ==
    IF self.model.none THEN Raised("ModelNotTrained")
    ELSE EstimatorProba(self.model, cols, xgb_names)

\* XGBoostChurnModel.predict: the same guard, then the estimator's labels
Predict(self, cols, xgb_names) ==
    LET p == PredictProba(self, cols, xgb_names)
    IN  IF p.raised # "" THEN p ELSE Returned(Labels(Positive(p.value)))

\* predict_proba and predict on a frame that has the columns the estimator was
\* fitted on and one row for each entry of class_probs
PredictProbaOn(self, class_probs) ==
    IF self.model.none THEN Raised("ModelNotTrained")
    ELSE IF ~self.model.fitted THEN Raised("NotFittedError")
    ELSE Returned(ProbaMatrix(class_probs))

PredictOn(self, class_probs) ==
    LET p == PredictProbaOn(self, class_probs)
    IN  IF p.raised # "" THEN p ELSE Returned(Labels(Positive(p.value)))

\* _get_risk_level with strict comparisons
GetRiskLevelStrict(probability) ==
    IF probability > 800 THEN "HIGH"
    ELSE IF probability > 500 THEN "MEDIUM"
    ELSE "LOW"

\* BaseChurnModel._get_risk_level
GetRiskLevel(probability) ==
    IF probability >= 800 THEN "HIGH"
    ELSE IF probability >= 500 THEN "MEDIUM"
    ELSE "LOW"

\* the nearest integer to num / den, for den > 0
AsTypeIntRound(num, den) == (2 * num + den) \div (2 * den)

\* ndarray.astype(int) of the real num / den, den > 0: the fraction is dropped
AsTypeInt(num, den) ==
    IF num >= 0 THEN num \div den ELSE -((-num) \div den)

\* (probabilities * 100).astype(int), for one probability
RiskScore(probability) == AsTypeInt(probability * 100, 1000)

\* the churn flag set above the threshold only
PredictRiskScoreAbove(self, class_probs) ==
    LET proba == PredictProbaOn(self, class_probs)
        probabilities == Positive(proba.value)
    IN  IF proba.raised # "" THEN proba
        ELSE Returned([i \in 1..Len(probabilities) |->
                 [churn_probability |-> probabilities[i],
                  risk_score        |-> RiskScore(probabilities[i]),
                  risk_level        |-> GetRiskLevel(probabilities[i]),
                  predicted_churn   |-> IF probabilities[i] > 500 THEN 1 ELSE 0]])

\* XGBoostChurnModel.predict_risk_score: one record for each row
PredictRiskScore(self, class_probs) ==
    LET proba == PredictProbaOn(self, class_probs)
        probabilities == Positive(proba.value)
    IN  IF proba.raised # "" THEN proba
        ELSE Returned([i \in 1..Len(probabilities) |->
                 [churn_probability |-> probabilities[i],
                  risk_score        |-> RiskScore(probabilities[i]),
                  risk_level        |-> GetRiskLevel(probabilities[i]),
                  predicted_churn   |-> IF probabilities[i] >= 500 THEN 1 ELSE 0]])

\* PredictionRequest: the thresholds of a request, the defaults or its own
DefaultRequest == [risk_threshold_high |-> 80, risk_threshold_medium |-> 50]
Requests == {DefaultRequest, [risk_threshold_high |-> 70, risk_threshold_medium |-> 30]}

\* the tiers with the bounds exclusive
get_risk_level_above(score, request) ==
    IF score > request.risk_threshold_high THEN "HIGH"
    ELSE IF score > request.risk_threshold_medium THEN "MEDIUM"
    ELSE "LOW"

\* get_risk_level of predict_churn: the tier of an integer risk score
get_risk_level(score, request) ==
    IF score >= request.risk_threshold_high THEN "HIGH"
    ELSE IF score >= request.risk_threshold_medium THEN "MEDIUM"
    ELSE "LOW"

\* predict_churn from the probabilities on: one response for each tenant
Responses(probabilities, request) ==
    [i \in 1..Len(probabilities) |->
        [churn_probability |-> probabilities[i],
         risk_score        |-> RiskScore(probabilities[i]),
         risk_level        |-> get_risk_level(RiskScore(probabilities[i]), request),
         predicted_churn   |-> probabilities[i] >= 500]]

\* XGBClassifier.feature_importances_ of a fitted estimator: one score per
\* column of the frame it was fitted on, by position
Gain(name) ==
    CASE name = "avg_days_late" -> 30
      [] name = "monthly_rent" -> 50
      [] name = "property_age" -> 20
      [] OTHER -> 10
FeatureImportances(est) == [i \in 1..Len(est.cols) |-> Gain(est.cols[i])]

\* DataFrame.sort_values('importance', ascending=False)
RECURSIVE SortValues(_)
SortValues(rows) ==
    IF rows = <<>> THEN <<>>
    ELSE LET top == CHOOSE i \in 1..Len(rows) :
                        \A j \in 1..Len(rows) :
                            \/ rows[j].importance < rows[i].importance
                            \/ (rows[j].importance = rows[i].importance /\ i <= j)
         IN  <<rows[top]>>
             \o SortValues([k \in 1..(Len(rows) - 1) |->
                               IF k < top THEN rows[k] ELSE rows[k + 1]])

\* BaseChurnModel.get_feature_importance.  hasattr is False on a None model and
\* on an estimator that is not fitted (its property raises NotFittedError, an
\* AttributeError); a feature_names of None is broadcast as the feature of
\* every row; lists of different lengths make no DataFrame.
GetFeatureImportance(self) ==
    IF self.model.none \/ ~self.model.fitted THEN Raised("NotImplementedError")
    ELSE LET scores == FeatureImportances(self.model)
         IN  IF self.feature_names.none
             THEN Returned(SortValues([i \in 1..Len(scores) |->
                               [feature |-> "None", importance |-> scores[i]]]))
             ELSE IF Len(self.feature_names.list) # Len(scores)
             THEN Raised("ValueError")
             ELSE Returned(SortValues([i \in 1..Len(scores) |->
                               [feature |-> self.feature_names.list[i],
                                importance |-> scores[i]]]))

\* DataFrame.head(top_n)
Top(rows, top_n) ==
    SubSeq(rows, 1, IF top_n < Len(rows) THEN top_n ELSE Len(rows))

\* feature_values.get(name) for the row of a frame that has the columns the
\* estimator was fitted on: None for a name that is no column of the frame
FeatureValue(est, name) ==
    IF \E j \in 1..Len(est.cols) : est.cols[j] = name
    THEN [none |-> FALSE, v |-> ValueOf(name)]
    ELSE [none |-> TRUE, v |-> 0]

\* the list built from importance.head(top_n).iterrows()
Contributions(est, rows) ==
    [k \in 1..Len(rows) |->
        [feature |-> rows[k].feature, importance |-> rows[k].importance,
         value |-> FeatureValue(est, rows[k].feature)]]

\* an explanation that asks the estimator first and counts the rows afterwards
GetPredictionExplanationLate(self, class_probs, top_n) ==
    LET proba == PredictProbaOn(self, class_probs)
    IN  IF proba.raised # "" THEN proba
        ELSE IF Len(class_probs) # 1 THEN Raised("SingleSampleRequired")
        ELSE Returned(<<>>)

\* BaseChurnModel.get_prediction_explanation on a frame of Len(class_probs) rows
GetPredictionExplanation(self, class_probs, top_n) ==
    IF Len(class_probs) # 1 THEN Raised("SingleSampleRequired")
    ELSE LET proba == PredictProbaOn(self, class_probs)
             importance == GetFeatureImportance(self)
         IN  IF proba.raised # "" THEN proba
             ELSE IF importance.raised # "" THEN importance
             ELSE Returned(
                    [churn_probability |-> Positive(proba.value)[1],
                     predicted_class |->
                         IF Positive(proba.value)[1] >= 500 THEN 1 ELSE 0,
                     risk_level |-> GetRiskLevel(Positive(proba.value)[1]),
                     top_contributing_features |->
                         Contributions(self.model, Top(importance.value, top_n))])

\* a metric as a fraction; zero_division=0 and undefined scores
Ratio(num, den) ==
    IF den = 0 THEN [nan |-> FALSE, num |-> 0, den |-> 1]
    ELSE [nan |-> FALSE, num |-> num, den |-> den]
Undefined == [nan |-> TRUE, num |-> 0, den |-> 1]

\* the rows of true label t that were given label p
Cell(y, y_pred, t, p) ==
    Cardinality({i \in 1..Len(y) : y[i] = t /\ y_pred[i] = p})

\* confusion_matrix(y, y_pred).ravel(): the matrix has one row and one column
\* for each label found in y or y_pred, so a single cell when both hold one
\* and the same label
ConfusionMatrix(y, y_pred) ==
    IF Cardinality({y[i] : i \in 1..Len(y)} \cup {y_pred[i] : i \in 1..Len(y)}) = 2
    THEN <<Cell(y, y_pred, 0, 0), Cell(y, y_pred, 0, 1),
           Cell(y, y_pred, 1, 0), Cell(y, y_pred, 1, 1)>>
    ELSE <<Len(y)>>

\* roc_auc_score(y, y_proba): the share of (positive, negative) pairs of rows
\* the scores order correctly, a tie counting for half
RocAuc(y, y_proba) ==
    LET pairs == {p \in (1..Len(y)) \X (1..Len(y)) : y[p[1]] = 1 /\ y[p[2]] = 0}
    IN  Ratio(2 * Cardinality({p \in pairs : y_proba[p[1]] > y_proba[p[2]]})
                + Cardinality({p \in pairs : y_proba[p[1]] = y_proba[p[2]]}),
              2 * Cardinality(pairs))

\* the metrics of evaluate.  With one class in y, roc_auc_score raises
\* ValueError in the scikit-learn releases that reject it, and gives nan with a
\* warning in those that do not (sk_nan); `tn, fp, fn, tp = ...` raises
\* ValueError when ravel gives one cell.
Metrics(y, y_pred, y_proba, sk_nan) ==
    LET one_class == \A i, j \in 1..Len(y) : y[i] = y[j]
        cm == ConfusionMatrix(y, y_pred)
    IN  IF one_class /\ ~sk_nan THEN Raised("ValueError")
        ELSE IF Len(cm) # 4 THEN Raised("ValueError")
        ELSE Returned(
               [accuracy  |-> Ratio(cm[1] + cm[4], Len(y)),
                precision |-> Ratio(cm[4], cm[4] + cm[2]),
                recall    |-> Ratio(cm[4], cm[4] + cm[3]),
                f1_score  |-> Ratio(2 * cm[4], 2 * cm[4] + cm[2] + cm[3]),
                roc_auc   |-> IF one_class THEN Undefined ELSE RocAuc(y, y_proba),
                true_negatives  |-> cm[1],
                false_positives |-> cm[2],
                false_negatives |-> cm[3],
                true_positives  |-> cm[4],
                specificity |-> IF cm[1] + cm[2] > 0
                                THEN Ratio(cm[1], cm[1] + cm[2])
                                ELSE Ratio(0, 1)])

\* BaseChurnModel.evaluate: predict, then predict_proba, then the metrics
Evaluate(self, cols, xgb_names, y, sk_nan) ==
    LET y_pred == Predict(self, cols, xgb_names)
        y_proba == PredictProba(self, cols, xgb_names)
    IN  IF y_pred.raised # "" THEN y_pred
        ELSE IF y_proba.raised # "" THEN y_proba
        ELSE Metrics(y, y_pred.value, Positive(y_proba.value), sk_nan)

\* evaluate on a frame its booster gives class_probs, with the labels y
EvaluateOn(self, class_probs, y, sk_nan) ==
    LET y_pred == PredictOn(self, class_probs)
        y_proba == PredictProbaOn(self, class_probs)
    IN  IF y_pred.raised # "" THEN y_pred
        ELSE IF y_proba.raised # "" THEN y_proba
        ELSE Metrics(y, y_pred.value, Positive(y_proba.value), sk_nan)

\* XGBoostChurnModel.train: feature names, fit, metadata
Train(self, cols) ==
    [self EXCEPT !.feature_names = List(cols),
                 !.model = Fit(self.model, cols),
                 !.training_metadata = [training_samples |-> 1,
                                        n_features |-> Len(cols)]]

\* XGBoostChurnModel.tune_hyperparameters: GridSearchCV refits a clone of the
\* estimator with the best parameters of the grid
TuneHyperparameters(self, cols, best) ==
    [self EXCEPT !.model_config = Update(self.model_config, [max_depth |-> best]),
                 !.model = Fit(Estimator(Update(self.model.params,
                                                [max_depth |-> best])), cols)]

\* BaseChurnModel.save: the dictionary handed to joblib.dump
ModelData(self) ==
    [model             |-> self.model,
     feature_names     |-> self.feature_names,
     model_config      |-> self.model_config,
     training_metadata |-> self.training_metadata,
     model_version     |-> self.model_version,
     saved_at          |-> "utcnow"]

\* load that builds the instance with cls() and drops the saved model_config
LoadDefaults(model_data) ==
    [NewModel(<<>>) EXCEPT
        !.model = model_data.model,
        !.feature_names = model_data.feature_names,
        !.training_metadata = model_data.training_metadata,
        !.model_version = model_data.model_version]

\* BaseChurnModel.load: cls(model_config), then the four assignments
Load(model_data) ==
    [NewModel(model_data.model_config) EXCEPT
        !.model = model_data.model,
        !.feature_names = model_data.feature_names,
        !.training_metadata = model_data.training_metadata,
        !.model_version = model_data.model_version]

\* TenantFeatureEngineer.__init__
NewFeatureEngineer == [none |-> FALSE, encoders |-> <<>>, scalers |-> <<>>,
                       feature_names |-> <<>>]
NoFeatureEngineer == [none |-> TRUE, encoders |-> <<>>, scalers |-> <<>>,
                      feature_names |-> <<>>]

\* the global `model`: None, or a reference to the object of identity id
NoModel == [none |-> TRUE, obj |-> NewModel(<<>>), id |-> 0]
Ref(obj, id) == [none |-> FALSE, obj |-> obj, id |-> id]

NoFile == [exists |-> FALSE, data |-> <<>>, of |-> NewModel(<<>>)]

\* the last call: the operation, the frame it was given, what it raised or returned
Outcome(op, cols, r) ==
    [op |-> op, cols |-> cols, raised |-> r.raised, value |-> r.value]
NoOutcome == Outcome("", <<>>, Returned(<<>>))

\* the last call, when it was given the booster's probabilities for its frame
Scored(op, class_probs, r) ==
    [op |-> op, cols |-> <<>>, raised |-> r.raised, value |-> r.value,
     class_probs |-> class_probs]

(***************************************************************************)
(* One XGBoostChurnModel object, m, driven as the tests drive it.          *)
(***************************************************************************)
Construct(model_config) ==
    /\ m' = NewModel(model_config)
    /\ out' = Outcome("__init__", <<>>, Returned(<<>>))
    /\ UNCHANGED <<disk, model, feature_engineer>>
    /\ UNCHANGED <<fevars, workflow>>

DoTrain(cols) ==
    /\ m' = Train(m, cols)
    /\ out' = Outcome("train", cols, Returned(<<>>))
    /\ UNCHANGED <<disk, model, feature_engineer>>
    /\ UNCHANGED <<fevars, workflow>>

DoTune(cols, best) ==
    /\ m' = TuneHyperparameters(m, cols, best)
    /\ out' = Outcome("tune_hyperparameters", cols, Returned(<<>>))
    /\ UNCHANGED <<disk, model, feature_engineer>>
    /\ UNCHANGED <<fevars, workflow>>

DoPredict(cols, xgb_names) ==
    /\ out' = Outcome("predict", cols, Predict(m, cols, xgb_names))
    /\ UNCHANGED <<m, disk, model, feature_engineer>>
    /\ UNCHANGED <<fevars, workflow>>

DoPredictProba(cols, xgb_names) ==
    /\ out' = Outcome("predict_proba", cols, PredictProba(m, cols, xgb_names))
    /\ UNCHANGED <<m, disk, model, feature_engineer>>
    /\ UNCHANGED <<fevars, workflow>>

DoEvaluate(cols, xgb_names, y, sk_nan) ==
    /\ out' = Outcome("evaluate", cols, Evaluate(m, cols, xgb_names, y, sk_nan))
    /\ UNCHANGED <<m, disk, model, feature_engineer>>
    /\ UNCHANGED <<fevars, workflow>>

\* `of` remembers the object that was saved; it is not part of the file
File(self) == [exists |-> TRUE, data |-> ModelData(self), of |-> self]

Save ==
    /\ disk' = File(m)
    /\ out' = Outcome("save", <<>>, Returned(<<>>))
    /\ UNCHANGED <<m, model, feature_engineer>>
    /\ UNCHANGED <<fevars, workflow>>

\* loaded_model = XGBoostChurnModel.load(model_path): m names the loaded object
DoLoad ==
    /\ m' = IF disk.exists THEN Load(disk.data) ELSE m
    /\ out' = Outcome("load", <<>>, IF disk.exists THEN Returned(<<>>)
                                    ELSE Raised("FileNotFoundError"))
    /\ UNCHANGED <<disk, model, feature_engineer>>
    /\ UNCHANGED <<fevars, workflow>>

(***************************************************************************)
(* Scoring calls on m, for a frame its booster gives class_probs.          *)
(***************************************************************************)
DoGetRiskLevel(probability) ==
    /\ out' = Scored("_get_risk_level", <<probability>>,
                     Returned(GetRiskLevel(probability)))
    /\ UNCHANGED <<m, disk, model, feature_engineer>>
    /\ UNCHANGED <<fevars, workflow>>

\* the responses of predict_churn for the probabilities the booster gives
DoResponses(class_probs, request) ==
    /\ out' = [request |-> request] @@
               Scored("get_risk_level", class_probs,
                      Returned(Responses(class_probs, request)))
    /\ UNCHANGED <<m, disk, model, feature_engineer>>
    /\ UNCHANGED <<fevars, workflow>>

DoPredictOn(class_probs) ==
    /\ out' = Scored("predict", class_probs, PredictOn(m, class_probs))
    /\ UNCHANGED <<m, disk, model, feature_engineer>>
    /\ UNCHANGED <<fevars, workflow>>

DoPredictProbaOn(class_probs) ==
    /\ out' = Scored("predict_proba", class_probs, PredictProbaOn(m, class_probs))
    /\ UNCHANGED <<m, disk, model, feature_engineer>>
    /\ UNCHANGED <<fevars, workflow>>

DoPredictRiskScore(class_probs) ==
    /\ out' = Scored("predict_risk_score", class_probs,
                     PredictRiskScore(m, class_probs))
    /\ UNCHANGED <<m, disk, model, feature_engineer>>
    /\ UNCHANGED <<fevars, workflow>>

DoGetPredictionExplanation(class_probs, top_n) ==
    /\ out' = [top_n |-> top_n]
                 @@ Scored("get_prediction_explanation", class_probs,
                           GetPredictionExplanation(m, class_probs, top_n))
    /\ UNCHANGED <<m, disk, model, feature_engineer>>
    /\ UNCHANGED <<fevars, workflow>>

DoEvaluateOn(class_probs, y, sk_nan) ==
    /\ out' = [y |-> y] @@ Scored("evaluate", class_probs,
                                  EvaluateOn(m, class_probs, y, sk_nan))
    /\ UNCHANGED <<m, disk, model, feature_engineer>>
    /\ UNCHANGED <<fevars, workflow>>

DoGetFeatureImportance ==
    /\ out' = Outcome("get_feature_importance", <<>>, GetFeatureImportance(m))
    /\ UNCHANGED <<m, disk, model, feature_engineer>>
    /\ UNCHANGED <<fevars, workflow>>

(***************************************************************************)
(* The training script (models/train.py) and the service (api/main.py,     *)
(* globals model and feature_engineer).                                    *)
(***************************************************************************)
\* the class-imbalance weight train_model computes from the labels
ScalePosWeight == [scale_pos_weight |-> 3]

\* train_model: construct, tune when asked, train
TrainModel(cols, tune, best) ==
    LET fresh == NewModel(ScalePosWeight)
    IN  Train(IF tune THEN TuneHyperparameters(fresh, cols, best) ELSE fresh, cols)

\* main: train_model, then save_model_and_metadata
Main(cols, tune, best) ==
    /\ m' = TrainModel(cols, tune, best)
    /\ disk' = File(m')
    /\ out' = Outcome("main", cols, Returned(<<>>))
    /\ UNCHANGED <<model, feature_engineer>>
    /\ UNCHANGED <<fevars, workflow>>

\* @app.on_event("startup")
LoadModel ==
    /\ disk.exists => model.id < MaxLoads
    /\ model' = IF disk.exists THEN Ref(Load(disk.data), model.id + 1)
                ELSE [NoModel EXCEPT !.id = model.id]
    /\ feature_engineer' = NewFeatureEngineer
    /\ out' = Outcome("load_model", <<>>, Returned(<<>>))
    /\ UNCHANGED <<m, disk>>
    /\ UNCHANGED <<fevars, workflow>>

\* POST /model/reload: the 404 raised inside the try is caught and becomes a 500
\* a reload that loads the file into the object the global refers to
ReloadModelInPlace ==
    IF disk.exists THEN [model EXCEPT !.none = FALSE, !.obj = Load(disk.data)]
    ELSE model

\* `model = XGBoostChurnModel.load(MODEL_PATH)`: a new object, then the global
ReloadedModel ==
    IF disk.exists THEN Ref(Load(disk.data), model.id + 1) ELSE model

ReloadModel ==
    /\ disk.exists => model.id < MaxLoads
    /\ model' = ReloadedModel
    /\ out' = Outcome("reload_model", <<>>,
                      IF disk.exists THEN Returned(<<>>) ELSE Raised("HTTP500"))
    /\ UNCHANGED <<m, disk, feature_engineer>>
    /\ UNCHANGED <<fevars, workflow>>

\* feature_df[model.feature_names]: the request's columns picked by name, in the
\* model's order; KeyError when a name is no column of the request
Reindex(cols, names) ==
    IF names.none \/ \E i \in 1..Len(names.list) :
                        \A j \in 1..Len(cols) : cols[j] # names.list[i]
    THEN Raised("KeyError")
    ELSE Returned(names.list)

\* POST /predict
PredictChurn(xgb_names, request) ==
    LET picked == Reindex(RequestCols, model.obj.feature_names)
        proba == PredictProba(model.obj, picked.value, xgb_names)
    IN  /\ out' = [request |-> request] @@
                   Outcome("predict_churn", RequestCols,
                    IF model.none THEN Raised("HTTP503")
                    ELSE IF picked.raised # "" \/ proba.raised # ""
                    THEN Raised("HTTP500")
                    ELSE Returned(Responses(Positive(proba.value), request)))
        /\ UNCHANGED <<m, disk, model, feature_engineer>>
        /\ UNCHANGED <<fevars, workflow>>

(***************************************************************************)
(* integrations/palantir/workflows/retention_workflow.py: the step graph   *)
(* of a retention workflow and one execution of it.  The graph is the      *)
(* "steps" list of workflow_config; the execution is the walk the          *)
(* workflow engine makes over it from execution_result["currentStep"].     *)
(***************************************************************************)
\* lease_data: a lease, with or without the key monthlyRent
LeaseData ==
    {[leaseId |-> l, tenantId |-> "t1", propertyId |-> "p1", monthlyRent |-> 25]
        : l \in {"l1", "l2", "l3"}}
    \cup {[leaseId |-> l, tenantId |-> "t1", propertyId |-> "p1"]
            : l \in {"l1", "l2", "l3"}}

\* prediction_data: the risk scores of the tiers that start a workflow
PredictionData == {[risk_score |-> s] : s \in {50, 79, 80, 100}}

\* the outcomes the engine may report for a step
ResponseOutcomes ==
    {"NO_RESPONSE", "POSITIVE_RESPONSE", "NEGATIVE_RESPONSE",
     "HIGH_ENGAGEMENT", "LOW_ENGAGEMENT"}

\* one entry of "steps": nextStep is <<>> when the key is absent,
\* conditionalNext is the empty mapping when the key is absent
Step(stepId, action, parameters, nextStep, conditionalNext, terminal) ==
    [stepId |-> stepId, action |-> action, parameters |-> parameters,
     nextStep |-> nextStep, conditionalNext |-> conditionalNext,
     terminal |-> terminal]

\* the high-risk steps with the escalation handing back to the monitoring step
HighRiskStepsRetry(lease_data, prediction_data) ==
    <<Step(1, "ALERT_PROPERTY_MANAGER",
           [leaseId |-> lease_data.leaseId, tenantId |-> lease_data.tenantId,
            propertyId |-> lease_data.propertyId,
            riskScore |-> prediction_data.risk_score],
           <<2>>, <<>>, FALSE),
      Step(2, "SCHEDULE_CONCIERGE_CALL", <<>>, <<3>>, <<>>, FALSE),
      Step(3, "GENERATE_RETENTION_OFFER",
           [riskScore |-> prediction_data.risk_score,
            currentRent |-> lease_data.monthlyRent],
           <<4>>, <<>>, FALSE),
      Step(4, "SEND_RETENTION_EMAIL", <<>>, <<5>>, <<>>, FALSE),
      Step(5, "MONITOR_RESPONSE", <<>>, <<6>>,
           [o \in {"NO_RESPONSE", "POSITIVE_RESPONSE", "NEGATIVE_RESPONSE"} |->
               CASE o = "NO_RESPONSE" -> 6
                 [] o = "POSITIVE_RESPONSE" -> 7
                 [] o = "NEGATIVE_RESPONSE" -> 8],
           FALSE),
      Step(6, "ESCALATE_TO_REGIONAL_MANAGER", <<>>, <<5>>, <<>>, FALSE),
      Step(7, "PROCESS_RENEWAL", <<>>, <<>>, <<>>, TRUE),
      Step(8, "SCHEDULE_IN_PERSON_MEETING", <<>>, <<>>, <<>>, TRUE)>>

\* workflow_config["steps"] of create_high_risk_workflow
HighRiskSteps(lease_data, prediction_data) ==
    <<Step(1, "ALERT_PROPERTY_MANAGER",
           [leaseId |-> lease_data.leaseId, tenantId |-> lease_data.tenantId,
            propertyId |-> lease_data.propertyId,
            riskScore |-> prediction_data.risk_score],
           <<2>>, <<>>, FALSE),
      Step(2, "SCHEDULE_CONCIERGE_CALL", <<>>, <<3>>, <<>>, FALSE),
      Step(3, "GENERATE_RETENTION_OFFER",
           [riskScore |-> prediction_data.risk_score,
            currentRent |-> lease_data.monthlyRent],
           <<4>>, <<>>, FALSE),
      Step(4, "SEND_RETENTION_EMAIL", <<>>, <<5>>, <<>>, FALSE),
      Step(5, "MONITOR_RESPONSE", <<>>, <<6>>,
           [o \in {"NO_RESPONSE", "POSITIVE_RESPONSE", "NEGATIVE_RESPONSE"} |->
               CASE o = "NO_RESPONSE" -> 6
                 [] o = "POSITIVE_RESPONSE" -> 7
                 [] o = "NEGATIVE_RESPONSE" -> 8],
           FALSE),
      Step(6, "ESCALATE_TO_REGIONAL_MANAGER", <<>>, <<>>, <<>>, TRUE),
      Step(7, "PROCESS_RENEWAL", <<>>, <<>>, <<>>, TRUE),
      Step(8, "SCHEDULE_IN_PERSON_MEETING", <<>>, <<>>, <<>>, TRUE)>>

\* workflow_config["steps"] of create_medium_risk_workflow
MediumRiskSteps(lease_data, prediction_data) ==
    <<Step(1, "SEND_RETENTION_EMAIL", <<>>, <<2>>, <<>>, FALSE),
      Step(2, "GENERATE_INCENTIVE_OFFER",
           [riskScore |-> prediction_data.risk_score], <<3>>, <<>>, FALSE),
      Step(3, "MONITOR_ENGAGEMENT", <<>>, <<4>>,
           [o \in {"HIGH_ENGAGEMENT", "LOW_ENGAGEMENT"} |->
               IF o = "HIGH_ENGAGEMENT" THEN 5 ELSE 4],
           FALSE),
      Step(4, "SEND_REMINDER_EMAIL", <<>>, <<>>, <<>>, TRUE),
      Step(5, "FLAG_FOR_FOLLOW_UP", <<>>, <<>>, <<>>, TRUE)>>

\* the config of a workflow and the execution_result of _execute_workflow
Workflow(triggerType, lease_data, prediction_data, steps) ==
    [created |-> TRUE, raised |-> "", triggerType |-> triggerType,
     leaseId |-> lease_data.leaseId, steps |-> steps,
     riskMitigationValue |-> prediction_data.risk_score * 40,
     status |-> "INITIATED", currentStep |-> 1, totalSteps |-> Len(steps)]

NoWorkflow ==
    [created |-> FALSE, raised |-> "", triggerType |-> "", leaseId |-> "",
     steps |-> <<>>, riskMitigationValue |-> 0,
     status |-> "", currentStep |-> 1, totalSteps |-> 0]

\* create_high_risk_workflow: lease_data["monthlyRent"] raises KeyError when
\* the key is absent, before anything is executed
CreateHighRiskWorkflow(lease_data, prediction_data) ==
    /\ ~workflow.created /\ workflow.raised = ""
    /\ workflow' =
          IF "monthlyRent" \in DOMAIN lease_data
          THEN Workflow("HIGH_RISK_PREDICTION", lease_data, prediction_data,
                        HighRiskSteps(lease_data, prediction_data))
          ELSE [NoWorkflow EXCEPT !.raised = "KeyError",
                                  !.leaseId = lease_data.leaseId]
    /\ UNCHANGED <<fevars, mvars>>

\* create_medium_risk_workflow
CreateMediumRiskWorkflow(lease_data, prediction_data) ==
    /\ ~workflow.created /\ workflow.raised = ""
    /\ workflow' = Workflow("MEDIUM_RISK_PREDICTION", lease_data, prediction_data,
                            MediumRiskSteps(lease_data, prediction_data))
    /\ UNCHANGED <<fevars, mvars>>

\* the steps of the workflow with a stepId
StepsAt(stepId) ==
    {i \in 1..Len(workflow.steps) : workflow.steps[i].stepId = stepId}

\* the step the execution is at
CurrentStep == workflow.steps[CHOOSE i \in StepsAt(workflow.currentStep) : TRUE]

\* the execution is at a step of the workflow that is marked terminal
AtTerminal ==
    /\ workflow.created
    /\ StepsAt(workflow.currentStep) # {}
    /\ CurrentStep.terminal

\* the engine finishes the current step with an outcome and moves on: to the
\* conditionalNext target of the outcome when the step names one, to nextStep
\* otherwise
Advance(outcome) ==
    /\ workflow.created
    /\ StepsAt(workflow.currentStep) # {}
    /\ ~CurrentStep.terminal
    /\ outcome \in DOMAIN CurrentStep.conditionalNext
       \/ (CurrentStep.conditionalNext = <<>> /\ CurrentStep.nextStep # <<>>)
    /\ workflow' =
          [workflow EXCEPT
             !.status = "IN_PROGRESS",
             !.currentStep =
                IF outcome \in DOMAIN CurrentStep.conditionalNext
                THEN CurrentStep.conditionalNext[outcome]
                ELSE CurrentStep.nextStep[1]]
    /\ UNCHANGED <<fevars, mvars>>

(***************************************************************************)
(* Properties of the model object (checked under SpecModel) and of the     *)
(* service (checked under SpecService).                                    *)
(***************************************************************************)
\* C5: a prediction for a frame whose ordered column list differs from the
\* feature_names the loaded model recorded in train fails; the service never
\* answers POST /predict with probabilities computed on columns picked and
\* reordered by name.
C5_MismatchFails ==
    (out.op = "predict_churn" /\ ~model.none
       /\ ~model.obj.feature_names.none /\ model.obj.model.fitted
       /\ out.cols # model.obj.feature_names.list)
    => out.raised # ""

\* a model as its constructor leaves it
NewlyConstructed(self) == \E model_config \in Configs : self = NewModel(model_config)

\* C8: predict, predict_proba and evaluate on a newly constructed model fail
\* with the model's own not-trained error ("Model not trained. Call train()
\* first.") and return nothing.
C8_NewModelNotTrained ==
    (out.op \in {"predict", "predict_proba", "evaluate"} /\ NewlyConstructed(m))
    => (out.raised = "ModelNotTrained" /\ out.value = <<>>)

\* C9: the model that load returns from the file save wrote for a model has
\* that model's estimator, feature_names, model_config, training_metadata and
\* model_version, and its predict_proba on every frame is that model's.
C9_SaveLoadRoundTrip ==
    (out.op = "load" /\ out.raised = "")
    => /\ m.model = disk.of.model
       /\ m.feature_names = disk.of.feature_names
       /\ m.model_config = disk.of.model_config
       /\ m.training_metadata = disk.of.training_metadata
       /\ m.model_version = disk.of.model_version
       /\ \A cols \in ColLists, xgb_names \in BOOLEAN :
              PredictProba(m, cols, xgb_names) = PredictProba(disk.of, cols, xgb_names)

\* C9 witness: a trained model whose configuration is not the default one
\* (tuned, or constructed with a version) has been saved and loaded, and the
\* loaded model predicts
C9_Witness ==
    /\ out.op = "load" /\ out.raised = ""
    /\ disk.of.model.fitted /\ ~disk.of.feature_names.none
    /\ disk.of.model_config # DEFAULT_PARAMS
    /\ \E cols \in ColLists : PredictProba(m, cols, TRUE).raised = ""

\* C10: the file save writes holds the fitted transform state (encoders and
\* scalers) beside the estimator, and once the service has loaded a model its
\* feature_engineer is not a newly constructed, empty one.
C10_ArtifactHoldsTransform ==
    /\ disk.exists => {"encoders", "scalers"} \subseteq DOMAIN disk.data
    /\ ~model.none => (~feature_engineer.none /\ feature_engineer # NewFeatureEngineer)

(***************************************************************************)
(* Properties of the scoring calls (checked under SpecScore).              *)
(***************************************************************************)
\* C11: _get_risk_level(p) is HIGH exactly when p >= 0.8, MEDIUM exactly when
\* 0.5 <= p < 0.8 and LOW exactly when p < 0.5.
C11_RiskLevelTiers ==
    out.op = "_get_risk_level"
    => LET p == out.class_probs[1]
       IN  /\ (out.value = "HIGH") <=> (p >= 800)
           /\ (out.value = "MEDIUM") <=> (500 <= p /\ p < 800)
           /\ (out.value = "LOW") <=> (p < 500)

\* C11 witness: both boundaries have been asked for; this is the upper one
C11_Witness ==
    out.op = "_get_risk_level" /\ out.class_probs[1] = 800 /\ out.value = "HIGH"

C13_PredictThreshold ==
    (out.op = "predict" /\ out.raised = "")
    => \A i \in 1..Len(out.value) :
         /\ out.value[i] = (IF out.class_probs[i] >= 500 THEN 1 ELSE 0)
         /\ out.value[i] = PredictRiskScore(m, out.class_probs).value[i].predicted_churn

\* C14: predict_proba on a trained model returns, for a frame of n rows, n rows
\* of two values, each in [0,1], that sum to 1.
C14_ProbaRows ==
    (out.op = "predict_proba" /\ m.model.fitted)
    => /\ out.raised = ""
       /\ Len(out.value) = Len(out.class_probs)
       /\ \A i \in 1..Len(out.value) :
            /\ Len(out.value[i]) = 2
            /\ \A j \in 1..2 : out.value[i][j] \in 0..1000
            /\ out.value[i][1] + out.value[i][2] = 1000

\* C14 witness: a frame of two rows, one of them certain, has been given its
\* probabilities
C14_Witness ==
    /\ out.op = "predict_proba" /\ m.model.fitted /\ out.raised = ""
    /\ Len(out.class_probs) = 2 /\ out.class_probs[2] = 1000

\* C16: whenever the live estimator is fitted, feature_names is set and is the
\* ordered column list of the frame of its last fit, whether train or
\* tune_hyperparameters made that fit.
C16_FeatureNamesFollowFit ==
    m.model.fitted
    => /\ ~m.feature_names.none
       /\ m.feature_names.list = m.model.cols

\* C17: the handlers have no await, so each runs to its end on the event loop:
\* a prediction step leaves the global `model` alone and answers from the one
\* object it refers to, and a load or reload never changes the object a
\* reference already names: it publishes a new object.
C17_OneArtifactPerRequest ==
    [][/\ (~model.none /\ ~model'.none /\ model'.id = model.id)
            => model'.obj = model.obj
       /\ model' # model => out'.op \in {"load_model", "reload_model"}
       /\ (out'.op = "reload_model" /\ out'.raised = "")
            => (model'.id # model.id /\ model'.obj = Load(disk.data))]_vars

\* C17 witness: a prediction answered by the second object the service loaded,
\* whose artifact differs from the training process's current model
C17_Witness ==
    /\ out.op = "predict_churn" /\ out.raised = ""
    /\ ~model.none /\ model.id = 2
    /\ model.obj # m

\* C18: get_prediction_explanation on a frame that has not exactly one row
\* (none, or two and more) raises its precondition error and returns nothing;
\* it does so before asking for a probability, so also on a model that is not
\* fitted, whose predict_proba would raise first.
C18_SingleSampleOnly ==
    (out.op = "get_prediction_explanation" /\ Len(out.class_probs) # 1)
    => (out.raised = "SingleSampleRequired" /\ out.value = <<>>)

\* C18 witness: an explanation has been refused for two rows on a model that
\* is not fitted
C18_Witness ==
    /\ out.op = "get_prediction_explanation" /\ Len(out.class_probs) = 2
    /\ ~m.model.fitted /\ out.raised = "SingleSampleRequired"

\* C19: evaluate on a fitted model returns its metrics, with specificity equal
\* to TN/(TN+FP) when the labels hold a negative row (TN+FP > 0) and equal to 0,
\* without an error and without nan, when they hold none; the four cells sum
\* to the number of rows.
C19_Specificity ==
    (out.op = "evaluate" /\ m.model.fitted)
    => /\ out.raised = ""
       /\ LET v == out.value
              negatives == v.true_negatives + v.false_positives
          IN  /\ v.true_negatives + v.false_positives
                   + v.false_negatives + v.true_positives = Len(out.y)
              /\ negatives = Cardinality({i \in 1..Len(out.y) : out.y[i] = 0})
              /\ ~v.specificity.nan
              /\ negatives > 0
                   => v.specificity.num * negatives
                        = v.true_negatives * v.specificity.den
              /\ negatives = 0 => v.specificity.num = 0

\* C22: get_prediction_explanation on one row of a fitted model returns
\* min(top_n, number of features) entries: entry k is the feature of rank k in
\* the estimator's importance ranking (descending), with that feature's
\* importance and the row's value of that feature.
C22_TopContributions ==
    (out.op = "get_prediction_explanation" /\ Len(out.class_probs) = 1
       /\ m.model.fitted)
    => /\ out.raised = ""
       /\ LET top == out.value.top_contributing_features
              cols == m.model.cols
          IN  /\ Len(top) = IF out.top_n < Len(cols) THEN out.top_n ELSE Len(cols)
              /\ \A k \in 1..Len(top) :
                   /\ \E j \in 1..Len(cols) : cols[j] = top[k].feature
                   /\ top[k].importance = Gain(top[k].feature)
                   /\ Cardinality({j \in 1..Len(cols) :
                          Gain(cols[j]) > top[k].importance}) = k - 1
                   /\ top[k].value = [none |-> FALSE, v |-> ValueOf(top[k].feature)]

\* C26: with the default thresholds 80 and 50, the tier predict_churn derives
\* from the integer risk score of a row is the tier _get_risk_level derives
\* from the row's probability.
C26_EndpointTiers ==
    (out.op = "get_risk_level" /\ out.request = DefaultRequest)
    => \A i \in 1..Len(out.value) :
         out.value[i].risk_level = GetRiskLevel(out.class_probs[i])

\* C26 witness: a request with the default thresholds has been answered for a
\* row just below the HIGH bound and a row at it
C26_Witness ==
    /\ out.op = "get_risk_level" /\ out.request = DefaultRequest
    /\ out.class_probs = <<799, 800>>
    /\ out.value[1].risk_level = "MEDIUM" /\ out.value[2].risk_level = "HIGH"

\* C27: in every row predict_risk_score returns and in every result of
\* get_prediction_explanation, the churn flag is 1 exactly when the risk level
\* is MEDIUM or HIGH and 0 exactly when it is LOW.
C27_FlagFollowsTier ==
    /\ (out.op = "predict_risk_score" /\ out.raised = "")
       => \A i \in 1..Len(out.value) :
            /\ out.value[i].predicted_churn \in {0, 1}
            /\ (out.value[i].predicted_churn = 1)
               <=> (out.value[i].risk_level \in {"MEDIUM", "HIGH"})
            /\ (out.value[i].predicted_churn = 0)
               <=> (out.value[i].risk_level = "LOW")
    /\ (out.op = "get_prediction_explanation" /\ out.raised = "")
       => /\ out.value.predicted_class \in {0, 1}
          /\ (out.value.predicted_class = 1)
             <=> (out.value.risk_level \in {"MEDIUM", "HIGH"})
          /\ (out.value.predicted_class = 0)
             <=> (out.value.risk_level = "LOW")

\* C27 witness: rows just below and at the MEDIUM bound have been scored
C27_Witness ==
    /\ out.op = "predict_risk_score" /\ out.raised = ""
    /\ out.class_probs = <<499, 500>>
    /\ out.value[1].predicted_churn = 0 /\ out.value[1].risk_level = "LOW"
    /\ out.value[2].predicted_churn = 1 /\ out.value[2].risk_level = "MEDIUM"

\* C20: get_feature_importance raises NotImplementedError when the estimator
\* exposes no scores; otherwise it returns every name of feature_names once,
\* beside the score the estimator gives that very feature, in non-increasing
\* order of score.
C20_FeatureImportance ==
    out.op = "get_feature_importance"
    => IF m.model.none \/ ~m.model.fitted
       THEN out.raised = "NotImplementedError"
       ELSE /\ out.raised = ""
            /\ ~m.feature_names.none
            /\ Len(out.value) = Len(m.feature_names.list)
            /\ \A i \in 1..Len(m.feature_names.list) :
                 /\ Cardinality({k \in 1..Len(out.value) :
                        out.value[k].feature = m.feature_names.list[i]}) = 1
                 /\ \E k \in 1..Len(out.value), j \in 1..Len(m.model.cols) :
                        /\ out.value[k].feature = m.feature_names.list[i]
                        /\ m.model.cols[j] = m.feature_names.list[i]
                        /\ out.value[k].importance = FeatureImportances(m.model)[j]
            /\ \A k \in 1..(Len(out.value) - 1) :
                   out.value[k].importance >= out.value[k + 1].importance

(***************************************************************************)
(* Properties of the feature groups (checked under SpecGroups).            *)
(***************************************************************************)
\* the payment rows of the lease of row i of the joined table
PaymentsOf(i) ==
    SelectSeq(merged.payments, LAMBDA r : r.lease_id = merged.df[i].lease_id)

C23_RentToIncome ==
    derived.op = "_financial_features"
    => \A i \in 1..Len(merged.df) :
         LET row == merged.df[i]
             ratio == derived.features[i]
             rent == row.monthly_rent.h * 12
         IN  /\ ratio.k = "num"
             /\ ratio.num <= ratio.den
             /\ IF "annual_income" \in DOMAIN row /\ ~IsNa(row.annual_income)
                THEN IF rent >= row.annual_income.h
                     THEN ratio.num = ratio.den
                     ELSE ratio.num * row.annual_income.h = rent * ratio.den
                ELSE ratio.num * 10 = 3 * ratio.den

(***************************************************************************)
(* Properties of the join (checked under SpecMerge).                       *)
(***************************************************************************)
\* C25: every engineer_features call returns a feature table whose column
\* names are pairwise distinct, tenure_months included, which the tenant
\* behaviour group and the temporal group both derive.
C25_DistinctNames ==
    ef.called =>
        /\ ef.raised = ""
        /\ \A i, j \in 1..Len(ef.features) :
              ef.features[i].name = ef.features[j].name => i = j

\* ---- Properties of the retention workflows (checked under SpecWorkflowFair) ----

\* every nextStep and conditionalNext target of the workflow is the stepId of
\* one of its steps, and every step is terminal or has a successor
WellFormed ==
    \A i \in 1..Len(workflow.steps) :
        LET step == workflow.steps[i]
            targets == {step.nextStep[k] : k \in 1..Len(step.nextStep)}
                       \cup {step.conditionalNext[o] : o \in DOMAIN step.conditionalNext}
        IN  /\ \A t \in targets : StepsAt(t) # {}
            /\ step.terminal \/ targets # {}

\* C30: in the step graph of a high-risk or medium-risk workflow every target
\* is a step of the workflow and every step is terminal or has a successor,
\* and every execution started at step 1 reaches a terminal step, whatever
\* outcome the monitoring step reports.
C30_WorkflowTerminates ==
    /\ [](workflow.created => WellFormed)
    /\ (workflow.created /\ workflow.currentStep = 1) ~> AtTerminal

\* C30 witness: a high-risk execution that got a negative response at the
\* monitoring step has ended at the in-person meeting
C30_Witness ==
    /\ workflow.created /\ workflow.triggerType = "HIGH_RISK_PREDICTION"
    /\ workflow.currentStep = 8 /\ AtTerminal

\* ---- Properties of the clean-up methods (checked under SpecCleanUp) ----

\* the cells of a column that hold a standardized value
Standardized(column) == {j \in 1..Len(column.vals) : column.vals[j].k = "std"}

\* C24: in an apply call after a fit that returned, the columns standardized are
\* exactly the columns the scaler was fitted on, each cell scaled with the
\* fit-time center and scale of its column, whatever the number of distinct
\* values in the batch of the apply call.
C24_ScaledColumnsFrozen ==
    (ApplyAfterFit /\ fit.raised = "") =>
        /\ ef.raised = ""
        /\ \A i \in 1..Len(ef.features) :
              LET column == ef.features[i]
                  scaler == scalers["standard"]
                  at == {r \in 1..Len(scaler.cols) : scaler.cols[r] = column.name}
              IN  IF at = {}
                  THEN Standardized(column) = {}
                  ELSE \A j \in 1..Len(column.vals) :
                          /\ column.vals[j].k = "std"
                          /\ \A r \in at : column.vals[j].st = scaler.stats[r]

\* C28: after missing-value handling no NaN remains in any column of the feature
\* table, for any batch, a single-row batch and a batch with no payment history
\* included.
C28_NoMissingValues ==
    (derived.op = "_handle_missing_values") =>
        /\ derived.raised = ""
        /\ \A i \in 1..Len(derived.features) :
              \A j \in 1..Len(derived.features[i].vals) :
                  ~IsNa(derived.features[i].vals[j])

\* C29: in the output of every fit and apply call that returns, neighborhood_type
\* and payment_method hold the integer code the encoder assigns (or -1 for an
\* unseen category), unscaled, whatever the number of categories in the batch.
C29_CodesUnscaled ==
    (ef.called /\ ef.raised = "") =>
        \A name \in {"neighborhood_type", "payment_method"} :
            \A i \in Positions(ef.features, name) :
                \A j \in 1..Len(ef.features[i].vals) :
                    LET cell == ef.features[i].vals[j]
                        classes == IF name \in DOMAIN encoders
                                   THEN encoders[name] ELSE <<>>
                    IN  /\ cell.k = "num"
                        /\ \/ cell.h = -2
                           \/ \E r \in 1..Len(classes) : cell.h = 2 * (r - 1)
                        /\ name = "neighborhood_type" =>
                              LET c == ef.leases[j].neighborhood_type.h
                              IN  cell.h = IF Seen(classes, c)
                                           THEN 2 * Code(classes, c) ELSE -2

\* C15: _merge_data_sources returns exactly one row per lease row, in the
\* order of the leases: no lease row is dropped when a table has no matching
\* record, and none is duplicated when a table repeats a join key.
C15_OneRowPerLease ==
    merged.called
    => /\ Len(merged.df) = Len(merged.leases)
       /\ \A i \in 1..Len(merged.leases) :
              merged.df[i].lease_id = merged.leases[i].lease_id

InitModel ==
    /\ m = NewModel(<<>>)
    /\ disk = NoFile
    /\ model = NoModel
    /\ feature_engineer = NoFeatureEngineer
    /\ out = NoOutcome

InitWorkflow == workflow = NoWorkflow

Init == InitFeatures /\ InitModel /\ InitWorkflow

\* the tables of one _merge_data_sources call, drawn before the call
InitMerge ==
    /\ encoders = <<>>
    /\ scalers = <<>>
    /\ feature_names = <<>>
    /\ ef = NoCall
    /\ fit = NoCall
    /\ derived = NoGroup
    /\ merged \in {Sources(tenants, leases, payments, properties, maintenance,
                            market_data) :
                        tenants \in TenantTables, leases \in LeaseTables,
                        payments \in PaymentTables, properties \in PropertyTables,
                        maintenance \in MaintenanceTables,
                        market_data \in MarketTables}
    /\ InitModel
    /\ InitWorkflow

\* the tenants, leases and payments of one call, drawn before the call
InitGroups ==
    /\ encoders = <<>>
    /\ scalers = <<>>
    /\ feature_names = <<>>
    /\ ef = NoCall
    /\ fit = NoCall
    /\ derived = NoGroup
    /\ merged \in {Sources(tenants, leases, payments, <<>>, <<>>,
                            [given |-> FALSE, rows |-> <<>>]) :
                        tenants \in TenantTables, leases \in LeaseTables,
                        payments \in PaymentTables}
    /\ InitModel
    /\ InitWorkflow

NextFeatures ==
    \E leases \in Batches, market_data \in Markets, is_training \in BOOLEAN :
        EngineerFeatures(leases, market_data, is_training)

\* the clean-up methods of the feature engineer, called on their own
NextCleanUp ==
    \/ \E leases \in Batches : DoHandleMissingValues(leases)
    \/ \E leases \in Batches, is_training \in BOOLEAN :
          DoCleanUp(leases, is_training)

NextMerge == DoMergeDataSources

\* one retention workflow, created once and then executed by the engine
NextWorkflow ==
    \/ \E lease_data \in LeaseData, prediction_data \in PredictionData :
          CreateHighRiskWorkflow(lease_data, prediction_data)
    \/ \E lease_data \in LeaseData, prediction_data \in PredictionData :
          CreateMediumRiskWorkflow(lease_data, prediction_data)
    \/ \E outcome \in ResponseOutcomes : Advance(outcome)

NextGroups ==
    \/ DoMergeDataSources
    \/ DoPaymentBehaviorFeatures
    \/ DoRentToIncomeRatio

NextModel ==
    \/ \E model_config \in Configs : Construct(model_config)
    \/ \E cols \in TrainCols : DoTrain(cols)
    \/ \E cols \in TrainCols, best \in Grid : DoTune(cols, best)
    \/ \E cols \in ColLists, xgb_names \in BOOLEAN : DoPredict(cols, xgb_names)
    \/ \E cols \in ColLists, xgb_names \in BOOLEAN : DoPredictProba(cols, xgb_names)
    \/ \E cols \in ColLists, xgb_names \in BOOLEAN, y \in {<<0>>, <<1>>},
          sk_nan \in BOOLEAN : DoEvaluate(cols, xgb_names, y, sk_nan)
    \/ DoGetFeatureImportance
    \/ \E class_probs \in {cp \in EvalProbs : Len(cp) = 1}, top_n \in TopNs :
          DoGetPredictionExplanation(class_probs, top_n)
    \/ Save
    \/ DoLoad

NextScore ==
    \/ Construct(<<>>)
    \/ \E cols \in TrainCols : DoTrain(cols)
    \/ \E probability \in Probabilities : DoGetRiskLevel(probability)
    \/ \E class_probs \in ClassProbs : DoPredictOn(class_probs)
    \/ \E class_probs \in ClassProbs : DoPredictProbaOn(class_probs)
    \/ \E class_probs \in ClassProbs : DoPredictRiskScore(class_probs)
    \/ \E class_probs \in ClassProbs, request \in Requests :
          DoResponses(class_probs, request)
    \/ \E class_probs \in ClassProbs, top_n \in TopNs :
          DoGetPredictionExplanation(class_probs, top_n)
    \/ \E class_probs \in EvalProbs, sk_nan \in BOOLEAN :
          \E y \in [1..Len(class_probs) -> {0, 1}] :
              DoEvaluateOn(class_probs, y, sk_nan)

NextService ==
    \/ \E cols \in ColLists, tune \in BOOLEAN, best \in Grid : Main(cols, tune, best)
    \/ LoadModel
    \/ ReloadModel
    \/ \E xgb_names \in BOOLEAN, request \in Requests :
          PredictChurn(xgb_names, request)

SpecFeatures == Init /\ [][NextFeatures]_vars
SpecModel == Init /\ [][NextModel]_vars
SpecService == Init /\ [][NextService]_vars
SpecScore == Init /\ [][NextScore]_vars
SpecMerge == InitMerge /\ [][NextMerge]_vars
SpecGroups == InitGroups /\ [][NextGroups]_vars
SpecCleanUp == Init /\ [][NextCleanUp]_vars
SpecWorkflow == Init /\ [][NextWorkflow]_vars
\* the engine runs every step to an outcome: the monitoring steps have a window
\* (48 hours, 7 days) after which NO_RESPONSE or LOW_ENGAGEMENT is the outcome
SpecWorkflowFair ==
    SpecWorkflow /\ WF_vars(\E outcome \in ResponseOutcomes : Advance(outcome))

====
